---- MODULE Spec2Model ----
(***************************************************************************)
(* Ledger engine of txn-manager: AccountService::update_balance and the    *)
(* TransactionService deposit / withdrawal / transfer protocols, run by    *)
(* concurrent request handlers over one PostgreSQL store.                  *)
(*                                                                         *)
(* The store is modelled at READ COMMITTED: `balance` and `transactions`   *)
(* are the committed rows, every open store transaction has its own        *)
(* uncommitted writes (txWrites, txRecs) and the row locks it holds        *)
(* (lockHolder).  SELECT ... FOR UPDATE and UPDATE block while another     *)
(* store transaction holds the row lock.  One action is one `.await` of    *)
(* the Rust code together with the synchronous code that follows it.       *)
(* Amounts are integers (Decimal values with scale 0).                     *)
(***************************************************************************)
EXTENDS Integers, FiniteSets, Sequences, TLC

\* ---------------------------------------------------------------- bounds
NumProcs == 2
MaxOps == 2
MaxAmount == 1
SeedBalance == 1
MaxN == 3
MaxX == 2
MaxPage == 2
MaxSkip == 1

Procs == 1..NumProcs
WProcs == 1..MaxN
AllProcs == Procs \cup WProcs
Amounts == (0 - 1)..MaxAmount

\* ------------------------------------------------------- fixed test data
NULL == "NULL"
Users == {"u1", "u2"}
Accounts == {"a1", "a2", "a3"}
AccountIds == Accounts \cup {"a0"}

currency(a) == IF a = "a3" THEN "EUR" ELSE "USD"

user_id(a) == IF a = "a2" THEN "u2" ELSE "u1"

\* ------------------------------------------------------------ AppError
Ok == "Ok"
ErrValidation == "Validation"
ErrForbidden == "Forbidden"
ErrNotFound == "NotFound"
ErrSameAccount == "BadRequest: Cannot transfer to the same account"
ErrCurrencyMismatch == "BadRequest: Currency mismatch between accounts"
ErrInsufficientFunds == "BadRequest: Insufficient funds"
ErrInvalidType == "BadRequest: Invalid transaction type"
ErrMissingParty == "BadRequest: account IDs are required"
ErrConflict == "Conflict"
ErrDatabase == "Database: store failure"
ErrCheck == "Database: check constraint balance_non_negative"
ErrDeadlock == "Database: deadlock detected"
Cancelled == "Cancelled"
NoResult == "-"

PENDING == "PENDING"
COMPLETED == "COMPLETED"
FAILED == "FAILED"

DEPOSIT == "DEPOSIT"
WITHDRAWAL == "WITHDRAWAL"
TRANSFER == "TRANSFER"
UPDATE_BALANCE == "update_balance"
CREATE_ACCOUNT == "create_account"
CREATE_USER == "create_user"
GET_ACCOUNT_BY_ID == "get_account_by_id"
GET_ACCOUNTS_BY_USER_ID == "get_accounts_by_user_id"
GET_TRANSACTION_BY_ID == "get_transaction_by_id"
GET_TRANSACTIONS_BY_ACCOUNT_ID == "get_transactions_by_account_id"

VARIABLES
    balance,        \* committed accounts.balance
    transactions,   \* committed rows of table transactions
    lockHolder,     \* row lock of each account: the process holding it, 0 if free
    pc,             \* position of each request handler
    req,            \* the request each handler is processing
    txOpen,         \* the handler has a store transaction open
    txWrites,       \* uncommitted balance writes of the open store transaction
    txRecs,         \* uncommitted transaction rows of the open store transaction
    loc,            \* local variables of the handler
    result,         \* what the handler's last call returned
    ops,            \* number of calls started so far
    scenario,       \* parameters N, X of the concurrent-withdrawal scenario
    users,          \* committed rows of table users
    accounts        \* rows of table accounts inserted since Init

vars == <<balance, transactions, lockHolder, pc, req, txOpen, txWrites, txRecs,
          loc, result, ops, scenario, users, accounts>>

\* Option<i64>: None, and Some(n) as <<n>>
None == <<>>

NoReq == [op |-> "NONE", via |-> "-", caller |-> "-", sender |-> NULL,
          receiver |-> NULL, amount |-> 0, currency |-> "-",
          account_id |-> NULL, user_id |-> NULL, transaction_id |-> 0,
          limit |-> None, offset |-> None]

\* data: the rows the last read returned; snapshot: the committed state its
\* statement saw
NoLoc == [currency |-> "-", balance |-> 0, id |-> 0, data |-> <<>>,
          snapshot |-> <<>>]

\* ---------------------------------------------------------- the store
\* the schema without the constraint
balance_unchecked(b) == TRUE

\* accounts.balance CHECK (balance >= 0), constraint balance_non_negative
balance_non_negative(b) == b >= 0

\* the balance a store transaction sees: its own write, else the committed row
View(p, a) ==
    IF \E w \in txWrites[p] : w[1] = a
    THEN (CHOOSE w \in txWrites[p] : w[1] = a)[2]
    ELSE balance[a]

\* a statement that never waits for the row lock
CanLockAlways(p, a) == TRUE

\* a lock on the whole accounts table instead of one row
CanLockTable(p, a) == \A b \in Accounts : lockHolder[b] \in {0, p}

\* the row lock is free for p (SELECT ... FOR UPDATE / UPDATE do not block)
CanLock(p, a) == lockHolder[a] \in {0, p}

\* a SELECT without FOR UPDATE: no row lock is taken
NotLocked(p, a) == lockHolder

\* a rollback or commit that leaves the row locks held
ReleasedNothing(p) == lockHolder

\* the row locks once p's statement has locked row a
Locked(p, a) == [lockHolder EXCEPT ![a] = p]

Released(p) == [a \in Accounts |-> IF lockHolder[a] = p THEN 0 ELSE lockHolder[a]]

Written(p, a, b) == {w \in txWrites[p] : w[1] # a} \cup {<<a, b>>}

\* tx.commit(): the uncommitted writes become the committed rows
CommittedBalance(p) == [a \in Accounts |-> View(p, a)]

CommittedRows(p) == transactions \cup txRecs[p]

\* an error path that leaves a FAILED audit row behind
RollbackRecordsFailure(p, err) ==
    /\ lockHolder' = Released(p)
    /\ txOpen' = [txOpen EXCEPT ![p] = FALSE]
    /\ txWrites' = [txWrites EXCEPT ![p] = {}]
    /\ txRecs' = [txRecs EXCEPT ![p] = {}]
    /\ pc' = [pc EXCEPT ![p] = "idle"]
    /\ loc' = [loc EXCEPT ![p] = NoLoc]
    /\ result' = [result EXCEPT ![p] = err]
    /\ req' = [req EXCEPT ![p] = NoReq]
    /\ transactions' = transactions \cup
            {[id |-> loc[p].id, sender_account_id |-> req[p].sender,
              receiver_account_id |-> req[p].receiver, amount |-> req[p].amount,
              currency |-> loc[p].currency, transaction_type |-> req[p].op,
              status |-> FAILED]}
    /\ UNCHANGED <<balance, ops, scenario, users, accounts>>

\* an error path on which the balance updates already made are not undone
RollbackKeepsWrites(p, err) ==
    /\ lockHolder' = Released(p)
    /\ txOpen' = [txOpen EXCEPT ![p] = FALSE]
    /\ txWrites' = [txWrites EXCEPT ![p] = {}]
    /\ txRecs' = [txRecs EXCEPT ![p] = {}]
    /\ pc' = [pc EXCEPT ![p] = "idle"]
    /\ loc' = [loc EXCEPT ![p] = NoLoc]
    /\ result' = [result EXCEPT ![p] = err]
    /\ req' = [req EXCEPT ![p] = NoReq]
    /\ balance' = CommittedBalance(p)
    /\ UNCHANGED <<transactions, ops, scenario, users, accounts>>

\* an error path on which the rows already inserted are not undone
RollbackKeepsRecords(p, err) ==
    /\ lockHolder' = Released(p)
    /\ txOpen' = [txOpen EXCEPT ![p] = FALSE]
    /\ txWrites' = [txWrites EXCEPT ![p] = {}]
    /\ txRecs' = [txRecs EXCEPT ![p] = {}]
    /\ pc' = [pc EXCEPT ![p] = "idle"]
    /\ loc' = [loc EXCEPT ![p] = NoLoc]
    /\ result' = [result EXCEPT ![p] = err]
    /\ req' = [req EXCEPT ![p] = NoReq]
    /\ transactions' = CommittedRows(p)
    /\ UNCHANGED <<balance, ops, scenario, users, accounts>>

\* tx dropped without commit (early return by `?` or `return Err`): rollback
Rollback(p, err) ==
    /\ lockHolder' = Released(p)
    /\ txOpen' = [txOpen EXCEPT ![p] = FALSE]
    /\ txWrites' = [txWrites EXCEPT ![p] = {}]
    /\ txRecs' = [txRecs EXCEPT ![p] = {}]
    /\ pc' = [pc EXCEPT ![p] = "idle"]
    /\ loc' = [loc EXCEPT ![p] = NoLoc]
    /\ result' = [result EXCEPT ![p] = err]
    /\ req' = [req EXCEPT ![p] = NoReq]
    /\ UNCHANGED <<balance, transactions, ops, scenario, users, accounts>>

\* tx.commit(): writes and rows become committed, the row locks are released
Commit(p) ==
    /\ balance' = CommittedBalance(p)
    /\ transactions' = CommittedRows(p)
    /\ lockHolder' = Released(p)
    /\ txOpen' = [txOpen EXCEPT ![p] = FALSE]
    /\ txWrites' = [txWrites EXCEPT ![p] = {}]
    /\ txRecs' = [txRecs EXCEPT ![p] = {}]
    /\ pc' = [pc EXCEPT ![p] = "idle"]
    /\ loc' = [loc EXCEPT ![p] = NoLoc]
    /\ result' = [result EXCEPT ![p] = Ok]
    /\ req' = [req EXCEPT ![p] = NoReq]
    /\ UNCHANGED <<ops, scenario, users, accounts>>


\* ------------------------------------------------------------- requests
Request(op, via, caller, s, r, amt) ==
    [NoReq EXCEPT !.op = op, !.via = via, !.caller = caller, !.sender = s,
                  !.receiver = r, !.amount = amt]

\* DepositRequest, WithdrawalRequest, TransferRequest and the arguments of
\* update_balance(id, amount)
Requests(via, callers) ==
    {Request(DEPOSIT, via, c, NULL, a, x) :
        c \in callers, a \in AccountIds, x \in Amounts}
    \cup {Request(WITHDRAWAL, via, c, a, NULL, x) :
        c \in callers, a \in AccountIds, x \in Amounts}
    \cup {Request(TRANSFER, via, c, a, b, x) :
        c \in callers, a \in AccountIds, b \in AccountIds, x \in Amounts}

SvcRequests ==
    Requests("svc", {"-"})
    \cup {Request(UPDATE_BALANCE, "svc", "-", NULL, a, x) :
            a \in AccountIds, x \in Amounts}

ApiRequests == Requests("api", Users)

\* CreateTransactionRequest: a type tag and optional sender and receiver
TypeTags == {TRANSFER, DEPOSIT, WITHDRAWAL, "REFUND"}

\* the strings a client sends as CreateTransactionRequest.currency
Currencies == {"USD", "US"}

GenericRequests ==
    {[Request(t, "api_generic", c, a, b, x) EXCEPT !.currency = cur] :
        t \in TypeTags, c \in Users, a \in AccountIds \cup {NULL},
        b \in AccountIds \cup {NULL}, x \in Amounts, cur \in Currencies}

\* the account a deposit, withdrawal or update_balance works on
Target(r) == IF r.op = WITHDRAWAL THEN r.sender ELSE r.receiver

\* a validator that lets a zero amount through
validate_non_negative_amount(amount) == ~(amount < 0)

\* validate_positive_amount: Err iff amount <= 0
validate_positive_amount(amount) == ~(amount <= 0)

\* #[validate(length(min = 3, max = 3))] on a currency field
validate_currency(cur) == Len(cur) >= 3 /\ Len(cur) <= 3

\* ----------------------------------------------------------------- Init
\* Accounts are created with balance 0; a1 has since received one deposit of
\* SeedBalance, a2 and a3 are untouched.
\* the users u1 and u2, registered before Init
SeedUsers == {[id |-> u, username |-> u] : u \in Users}

SeedRows ==
    IF SeedBalance = 0 THEN {}
    ELSE {[id |-> 0, sender_account_id |-> NULL, receiver_account_id |-> "a1",
           amount |-> SeedBalance, currency |-> currency("a1"),
           transaction_type |-> DEPOSIT, status |-> COMPLETED]}

Init ==
    /\ balance = [a \in Accounts |-> IF a = "a1" THEN SeedBalance ELSE 0]
    /\ transactions = SeedRows
    /\ lockHolder = [a \in Accounts |-> 0]
    /\ pc = [p \in AllProcs |-> "idle"]
    /\ req = [p \in AllProcs |-> NoReq]
    /\ txOpen = [p \in AllProcs |-> FALSE]
    /\ txWrites = [p \in AllProcs |-> {}]
    /\ txRecs = [p \in AllProcs |-> {}]
    /\ loc = [p \in AllProcs |-> NoLoc]
    /\ result = [p \in AllProcs |-> NoResult]
    /\ ops = 0
    /\ scenario = [n |-> 0, x |-> 0]
    /\ users = SeedUsers
    /\ accounts = {}

\* ------------------------------------------------------- entering a call
\* a caller of the library (tests, benches) calls process_deposit,
\* process_withdrawal, process_transfer or update_balance directly
CallService(p) ==
    /\ pc[p] = "idle"
    /\ ops < MaxOps
    /\ \E r \in SvcRequests : req' = [req EXCEPT ![p] = r]
    /\ pc' = [pc EXCEPT ![p] = "begin"]
    /\ ops' = ops + 1
    /\ loc' = [loc EXCEPT ![p] = [NoLoc EXCEPT !.id = ops + 1]]
    /\ result' = [result EXCEPT ![p] = NoResult]
    /\ UNCHANGED <<balance, transactions, lockHolder, txOpen, txWrites, txRecs,
                   scenario, users, accounts>>

\* what is kept of a request the handler has refused: its entry and its amount
Rejected(r) == [NoReq EXCEPT !.via = r.via, !.amount = r.amount]

\* the HTTP handlers deposit, withdrawal and transfer: request.validate() first
ApiHandler(p) ==
    /\ pc[p] = "idle"
    /\ ops < MaxOps
    /\ \E r \in ApiRequests :
        IF validate_positive_amount(r.amount)
        THEN /\ req' = [req EXCEPT ![p] = r]
             /\ pc' = [pc EXCEPT ![p] = "api_owner"]
             /\ result' = [result EXCEPT ![p] = NoResult]
             /\ loc' = [loc EXCEPT ![p] = [NoLoc EXCEPT !.id = ops + 1]]
        ELSE /\ req' = [req EXCEPT ![p] = Rejected(r)]
             /\ pc' = pc
             /\ result' = [result EXCEPT ![p] = ErrValidation]
             /\ loc' = [loc EXCEPT ![p] = NoLoc]
    /\ ops' = ops + 1
    /\ UNCHANGED <<balance, transactions, lockHolder, txOpen, txWrites, txRecs,
                   scenario, users, accounts>>

\* a handler returns an error before calling the service
ApiFails(p, err) ==
    /\ pc' = [pc EXCEPT ![p] = "idle"]
    /\ result' = [result EXCEPT ![p] = err]
    /\ loc' = [loc EXCEPT ![p] = NoLoc]
    /\ req' = [req EXCEPT ![p] = NoReq]
    /\ UNCHANGED <<balance, transactions, lockHolder, txOpen, txWrites, txRecs,
                   ops, scenario, users, accounts>>

ApiGoes(p, next) ==
    /\ pc' = [pc EXCEPT ![p] = next]
    /\ UNCHANGED <<balance, transactions, lockHolder, req, txOpen, txWrites,
                   txRecs, loc, result, ops, scenario, users, accounts>>

\* a handler that compares the receiver's owner with the authenticated user
OwnedAccountReceiver(r) == r.receiver

\* the account whose owner the handler compares with the authenticated user
OwnedAccount(r) == IF r.op = DEPOSIT THEN r.receiver ELSE r.sender

\* account_service.get_account_by_id(..) and the ownership comparison
ApiOwner(p) ==
    /\ pc[p] = "api_owner"
    /\ LET a == OwnedAccount(req[p]) IN
        IF a \notin Accounts THEN ApiFails(p, ErrNotFound)
        ELSE IF user_id(a) # req[p].caller THEN ApiFails(p, ErrForbidden)
        ELSE ApiGoes(p, "begin")

\* the HTTP handler create_transaction: request.validate() first
ApiCreateTransaction(p) ==
    /\ pc[p] = "idle"
    /\ ops < MaxOps
    /\ \E r \in GenericRequests :
        IF validate_positive_amount(r.amount) /\ validate_currency(r.currency)
        THEN /\ req' = [req EXCEPT ![p] = r]
             /\ pc' = [pc EXCEPT ![p] = "api_sender"]
             /\ result' = [result EXCEPT ![p] = NoResult]
             /\ loc' = [loc EXCEPT ![p] = [NoLoc EXCEPT !.id = ops + 1]]
        ELSE /\ req' = [req EXCEPT ![p] = Rejected(r)]
             /\ pc' = pc
             /\ result' = [result EXCEPT ![p] = ErrValidation]
             /\ loc' = [loc EXCEPT ![p] = NoLoc]
    /\ ops' = ops + 1
    /\ UNCHANGED <<balance, transactions, lockHolder, txOpen, txWrites, txRecs,
                   scenario, users, accounts>>

\* create_transaction handler: if a sender is given it must exist and belong to
\* the authenticated user
ApiSender(p) ==
    /\ pc[p] = "api_sender"
    /\ LET a == req[p].sender IN
        IF a = NULL THEN ApiGoes(p, "api_receiver")
        ELSE IF a \notin Accounts THEN ApiFails(p, ErrNotFound)
        ELSE IF user_id(a) # req[p].caller THEN ApiFails(p, ErrForbidden)
        ELSE ApiGoes(p, "api_receiver")

\* create_transaction handler: the same test for a given receiver
ApiReceiver(p) ==
    /\ pc[p] = "api_receiver"
    /\ LET a == req[p].receiver IN
        IF a = NULL THEN ApiGoes(p, "route")
        ELSE IF a \notin Accounts THEN ApiFails(p, ErrNotFound)
        ELSE IF user_id(a) # req[p].caller THEN ApiFails(p, ErrForbidden)
        ELSE ApiGoes(p, "route")

\* a facade that hands the generic request on as it came
RoutedAsGiven(r) == r

\* TransactionService::create_transaction: the request handed to
\* process_transfer, process_deposit or process_withdrawal
Routed(r) ==
    IF r.op = TRANSFER THEN [r EXCEPT !.currency = "-"]
    ELSE IF r.op = DEPOSIT THEN [r EXCEPT !.sender = NULL, !.currency = "-"]
    ELSE [r EXCEPT !.receiver = NULL, !.currency = "-"]

\* a facade that does not look whether the party ids are there
MissingPartyIgnored(r) == FALSE

\* TransactionService::create_transaction: the is_none() tests of the three
\* match arms
MissingParty(r) ==
    \/ r.op = TRANSFER /\ (r.sender = NULL \/ r.receiver = NULL)
    \/ r.op = DEPOSIT /\ r.receiver = NULL
    \/ r.op = WITHDRAWAL /\ r.sender = NULL

\* TransactionService::create_transaction: the type tag and the party ids
CreateTransaction(p) ==
    /\ pc[p] = "route"
    /\ LET r == req[p] IN
        IF r.op \notin {TRANSFER, DEPOSIT, WITHDRAWAL}
        THEN ApiFails(p, ErrInvalidType)
        ELSE IF MissingParty(r)
        THEN ApiFails(p, ErrMissingParty)
        ELSE /\ req' = [req EXCEPT ![p] = Routed(r)]
             /\ pc' = [pc EXCEPT ![p] = "begin"]
             /\ UNCHANGED <<balance, transactions, lockHolder, txOpen, txWrites,
                            txRecs, loc, result, ops, scenario, users, accounts>>

\* ------------------------------------------------------ self.pool.begin()
\* a transfer that does not compare the two ids
SameAccountIgnored(r) == FALSE

\* if request.sender_account_id == request.receiver_account_id
SameAccount(r) == r.sender = r.receiver

\* process_transfer also compares the two ids right after begin()
Begin(p) ==
    /\ pc[p] = "begin"
    /\ IF req[p].op = TRANSFER /\ SameAccount(req[p])
       THEN Rollback(p, ErrSameAccount)
       ELSE /\ txOpen' = [txOpen EXCEPT ![p] = TRUE]
            /\ pc' = [pc EXCEPT ![p] =
                        IF req[p].op = TRANSFER THEN "lock_sender" ELSE "lock_account"]
            /\ UNCHANGED <<balance, transactions, lockHolder, req, txWrites,
                           txRecs, loc, result, ops, scenario, users, accounts>>

\* self.pool.begin().await? fails (no connection), or the handler's future is
\* dropped while it waits for a connection: no store transaction was opened
BeginFails(p) ==
    /\ pc[p] = "begin"
    /\ \E err \in {ErrDatabase, Cancelled} : Rollback(p, err)

\* ---------------------------------------------------- SELECT ... FOR UPDATE
\* process_deposit: lock the account row, keep its currency
DepositLock(p) ==
    /\ pc[p] = "lock_account"
    /\ req[p].op = DEPOSIT
    /\ LET a == req[p].receiver IN
        IF a \notin Accounts
        THEN Rollback(p, ErrNotFound)
        ELSE /\ CanLock(p, a)
             /\ lockHolder' = Locked(p, a)
             /\ loc' = [loc EXCEPT ![p].currency = currency(a)]
             /\ pc' = [pc EXCEPT ![p] = "insert"]
             /\ UNCHANGED <<balance, transactions, req, txOpen, txWrites, txRecs,
                            result, ops, scenario, users, accounts>>

\* process_withdrawal: lock the account row, keep its currency
WithdrawalLock(p) ==
    /\ pc[p] = "lock_account"
    /\ req[p].op = WITHDRAWAL
    /\ LET a == req[p].sender IN
        IF a \notin Accounts
        THEN Rollback(p, ErrNotFound)
        ELSE /\ CanLock(p, a)
             /\ lockHolder' = Locked(p, a)
             /\ loc' = [loc EXCEPT ![p].currency = currency(a)]
             /\ pc' = [pc EXCEPT ![p] = "read_balance"]
             /\ UNCHANGED <<balance, transactions, req, txOpen, txWrites, txRecs,
                            result, ops, scenario, users, accounts>>

\* process_transfer: lock the sender row, keep its currency
TransferLockSender(p) ==
    /\ pc[p] = "lock_sender"
    /\ LET a == req[p].sender IN
        IF a \notin Accounts
        THEN Rollback(p, ErrNotFound)
        ELSE /\ CanLock(p, a)
             /\ lockHolder' = Locked(p, a)
             /\ loc' = [loc EXCEPT ![p].currency = currency(a)]
             /\ pc' = [pc EXCEPT ![p] = "lock_receiver"]
             /\ UNCHANGED <<balance, transactions, req, txOpen, txWrites, txRecs,
                            result, ops, scenario, users, accounts>>

\* a comparison that lets every pair of currencies through
CurrencyMismatchIgnored(sender_currency, receiver_currency) == FALSE

\* if sender_currency != receiver.currency
CurrencyMismatch(sender_currency, receiver_currency) ==
    sender_currency # receiver_currency

\* process_transfer: lock the receiver row, then compare the two currencies
TransferLockReceiver(p) ==
    /\ pc[p] = "lock_receiver"
    /\ LET a == req[p].receiver IN
        IF a \notin Accounts
        THEN Rollback(p, ErrNotFound)
        ELSE /\ CanLock(p, a)
             /\ IF CurrencyMismatch(loc[p].currency, currency(a))
                THEN Rollback(p, ErrCurrencyMismatch)
                ELSE /\ lockHolder' = Locked(p, a)
                     /\ pc' = [pc EXCEPT ![p] = "read_balance"]
                     /\ UNCHANGED <<balance, transactions, req, txOpen, txWrites,
                                    txRecs, loc, result, ops, scenario, users, accounts>>

\* a sufficiency test that also refuses the exact balance
InsufficientFundsInclusive(bal, amount) == bal <= amount

\* the sufficiency test of process_withdrawal and process_transfer
InsufficientFunds(bal, amount) == bal < amount

\* SELECT balance::TEXT ... FOR UPDATE of the sender, then the sufficiency test
ReadBalance(p) ==
    /\ pc[p] = "read_balance"
    /\ LET a == req[p].sender IN
        /\ CanLock(p, a)
        /\ IF InsufficientFunds(View(p, a), req[p].amount)
           THEN Rollback(p, ErrInsufficientFunds)
           ELSE /\ lockHolder' = Locked(p, a)
                /\ loc' = [loc EXCEPT ![p].balance = View(p, a)]
                /\ pc' = [pc EXCEPT ![p] = "insert"]
                /\ UNCHANGED <<balance, transactions, req, txOpen, txWrites,
                               txRecs, result, ops, scenario, users, accounts>>

\* ------------------------------------------------ create_transaction_record
\* a record inserted as COMPLETED from the start
NewRecordCompleted(p) ==
    [id |-> loc[p].id,
     sender_account_id |-> req[p].sender,
     receiver_account_id |-> req[p].receiver,
     amount |-> req[p].amount,
     currency |-> loc[p].currency,
     transaction_type |-> req[p].op,
     status |-> COMPLETED]

NewRecord(p) ==
    [id |-> loc[p].id,
     sender_account_id |-> req[p].sender,
     receiver_account_id |-> req[p].receiver,
     amount |-> req[p].amount,
     currency |-> loc[p].currency,
     transaction_type |-> req[p].op,
     status |-> PENDING]

\* INSERT INTO transactions ... status PENDING, inside the store transaction
CreateTransactionRecord(p) ==
    /\ pc[p] = "insert"
    /\ txRecs' = [txRecs EXCEPT ![p] = {NewRecord(p)}]
    /\ pc' = [pc EXCEPT ![p] = IF req[p].op = DEPOSIT THEN "credit" ELSE "debit"]
    /\ UNCHANGED <<balance, transactions, lockHolder, req, txOpen, txWrites, loc,
                   result, ops, scenario, users, accounts>>

\* ---------------------------------------------------- update_account_balance
\* UPDATE accounts SET balance = amount
AdjustedOverwrite(b, amount) == amount

\* UPDATE accounts SET balance = balance + amount
Adjusted(b, amount) == b + amount

\* an update whose WHERE clause names one fixed row
UpdateAccountFixed(p) == "a3"

\* the account and the signed amount of the update the handler is about to run
UpdateAccount(p) == IF pc[p] = "debit" THEN req[p].sender ELSE req[p].receiver

\* the debit passed without its minus sign
UpdateAmountUnsigned(p) == req[p].amount

UpdateAmount(p) == IF pc[p] = "debit" THEN 0 - req[p].amount ELSE req[p].amount

\* a transfer that goes on to the status after its debit
AfterUpdateSkipsCredit(p) == "status"

\* the statement after update_account_balance: a transfer credits the
\* receiver after it has debited the sender
AfterUpdate(p) ==
    IF pc[p] = "debit" /\ req[p].op = TRANSFER THEN "credit" ELSE "status"

UpdateAccountBalance(p) ==
    /\ pc[p] \in {"debit", "credit"}
    /\ LET a == UpdateAccount(p)
           b == Adjusted(View(p, a), UpdateAmount(p))
       IN
        /\ CanLock(p, a)
        /\ IF ~balance_non_negative(b)
           THEN Rollback(p, ErrCheck)
           ELSE /\ lockHolder' = Locked(p, a)
                /\ txWrites' = [txWrites EXCEPT ![p] = Written(p, a, b)]
                /\ pc' = [pc EXCEPT ![p] = AfterUpdate(p)]
                /\ UNCHANGED <<balance, transactions, req, txOpen, txRecs, loc,
                               result, ops, scenario, users, accounts>>

\* -------------------------------------------------- update_transaction_status
\* an UPDATE that also overwrites the amount
WithStatusAndAmount(rows, id, status) ==
    {IF t.id = id THEN [t EXCEPT !.status = status, !.amount = 0] ELSE t : t \in rows}

\* UPDATE transactions SET status = .., updated_at = NOW() WHERE id = ..
WithStatus(rows, id, status) ==
    {IF t.id = id THEN [t EXCEPT !.status = status] ELSE t : t \in rows}

UpdateTransactionStatus(p) ==
    /\ pc[p] = "status"
    /\ txRecs' = [txRecs EXCEPT ![p] = WithStatus(txRecs[p], loc[p].id, COMPLETED)]
    /\ pc' = [pc EXCEPT ![p] = "commit"]
    /\ UNCHANGED <<balance, transactions, lockHolder, req, txOpen, txWrites, loc,
                   result, ops, scenario, users, accounts>>

\* tx.commit() of process_deposit, process_withdrawal, process_transfer and
\* update_balance
TxCommit(p) ==
    /\ pc[p] = "commit"
    /\ Commit(p)

\* ------------------------------------------------ AccountService::update_balance
\* a primitive that stores the amount instead of adding it
new_balance_overwrite(current_balance, amount) == amount

\* let new_balance = current_balance + amount
new_balance(current_balance, amount) == current_balance + amount

\* SELECT ... FOR UPDATE, new_balance = current_balance + amount, and the
\* explicit test new_balance < 0
UpdateBalanceLock(p) ==
    /\ pc[p] = "lock_account"
    /\ req[p].op = UPDATE_BALANCE
    /\ LET a == req[p].receiver IN
        IF a \notin Accounts
        THEN Rollback(p, ErrNotFound)
        ELSE /\ CanLock(p, a)
             /\ IF new_balance(View(p, a), req[p].amount) < 0
                THEN Rollback(p, ErrInsufficientFunds)
                ELSE /\ lockHolder' = Locked(p, a)
                     /\ loc' = [loc EXCEPT ![p].balance =
                                    new_balance(View(p, a), req[p].amount)]
                     /\ pc' = [pc EXCEPT ![p] = "write"]
                     /\ UNCHANGED <<balance, transactions, req, txOpen, txWrites,
                                    txRecs, result, ops, scenario, users, accounts>>

\* UPDATE accounts SET balance = new_balance
UpdateBalanceWrite(p) ==
    /\ pc[p] = "write"
    /\ LET a == req[p].receiver
           b == loc[p].balance
       IN
        /\ CanLock(p, a)
        /\ IF ~balance_non_negative(b)
           THEN Rollback(p, ErrCheck)
           ELSE /\ lockHolder' = Locked(p, a)
                /\ txWrites' = [txWrites EXCEPT ![p] = Written(p, a, b)]
                /\ pc' = [pc EXCEPT ![p] = "commit"]
                /\ UNCHANGED <<balance, transactions, req, txOpen, txRecs, loc,
                               result, ops, scenario, users, accounts>>

\* ------------------------------------------------------- failures of a call
\* the store fails a statement (sqlx::Error -> AppError::Database by `?`), or
\* the handler's future is dropped (client gone, timeout): tx is dropped
Abort(p) ==
    /\ txOpen[p]
    /\ \E err \in {ErrDatabase, Cancelled} : Rollback(p, err)

\* the row a blocked SELECT ... FOR UPDATE is waiting for
Wanted(p) ==
    IF pc[p] = "lock_sender" THEN req[p].sender
    ELSE IF pc[p] = "lock_receiver" THEN req[p].receiver
    ELSE IF pc[p] = "lock_account" THEN Target(req[p])
    ELSE NULL

\* p is blocked on a row lock that q holds
WaitsFor(p, q) ==
    /\ p # q
    /\ Wanted(p) \in Accounts
    /\ lockHolder[Wanted(p)] = q

RECURSIVE Reach(_, _)
Reach(S, n) ==
    IF n = 0 THEN S
    ELSE Reach(S \cup {q \in AllProcs : \E r \in S : WaitsFor(r, q)}, n - 1)

\* a store that never finds a cycle
InDeadlockNever(p) == FALSE

\* p is on a cycle of the wait-for graph
InDeadlock(p) ==
    \E q \in AllProcs : WaitsFor(p, q) /\ p \in Reach({q}, Cardinality(AllProcs))

\* PostgreSQL's deadlock detector aborts a store transaction of the cycle
DeadlockDetected(p) ==
    /\ InDeadlock(p)
    /\ Rollback(p, ErrDeadlock)

\* ------------------------------------------------------------------ Spec
Next ==
    \E p \in Procs :
        \/ CallService(p)
        \/ Begin(p)
        \/ BeginFails(p)
        \/ DepositLock(p)
        \/ WithdrawalLock(p)
        \/ TransferLockSender(p)
        \/ TransferLockReceiver(p)
        \/ ReadBalance(p)
        \/ CreateTransactionRecord(p)
        \/ UpdateAccountBalance(p)
        \/ UpdateTransactionStatus(p)
        \/ TxCommit(p)
        \/ UpdateBalanceLock(p)
        \/ UpdateBalanceWrite(p)
        \/ Abort(p)
        \/ DeadlockDetected(p)

Spec == Init /\ [][Next]_vars

\* the next statement of a call that has started: the runtime polls every
\* handler that can go on, the store runs every statement it is sent, grants
\* a row lock that stays free, and its deadlock detector runs when a lock wait
\* has lasted deadlock_timeout
Progress(p) ==
    \/ Begin(p)
    \/ DepositLock(p)
    \/ WithdrawalLock(p)
    \/ TransferLockSender(p)
    \/ TransferLockReceiver(p)
    \/ ReadBalance(p)
    \/ CreateTransactionRecord(p)
    \/ UpdateAccountBalance(p)
    \/ UpdateTransactionStatus(p)
    \/ TxCommit(p)
    \/ UpdateBalanceLock(p)
    \/ UpdateBalanceWrite(p)
    \/ DeadlockDetected(p)

SpecLive == Init /\ [][Next]_vars /\ \A p \in Procs : WF_vars(Progress(p))

TypeOK ==
    /\ \A a \in Accounts : balance[a] \in Int /\ lockHolder[a] \in AllProcs \cup {0}
    /\ \A p \in AllProcs : Cardinality(txRecs[p]) <= 1
    /\ ops \in Nat

\* ------------------------------------------- N concurrent withdrawals
\* Account a1 holds N*X - 1 (one earlier deposit) and N callers have each
\* called process_withdrawal(a1, X); nothing else runs.
ScenarioRows(b) ==
    IF b = 0 THEN {}
    ELSE {[id |-> 0, sender_account_id |-> NULL, receiver_account_id |-> "a1",
           amount |-> b, currency |-> currency("a1"),
           transaction_type |-> DEPOSIT, status |-> COMPLETED]}

InitW ==
    \E n \in 1..MaxN, x \in 1..MaxX :
        /\ scenario = [n |-> n, x |-> x]
        /\ users = SeedUsers
        /\ accounts = {}
        /\ balance = [a \in Accounts |-> IF a = "a1" THEN n * x - 1 ELSE 0]
        /\ transactions = ScenarioRows(n * x - 1)
        /\ lockHolder = [a \in Accounts |-> 0]
        /\ pc = [p \in AllProcs |-> IF p <= n THEN "begin" ELSE "idle"]
        /\ req = [p \in AllProcs |->
                    IF p <= n THEN Request(WITHDRAWAL, "svc", "-", "a1", NULL, x)
                    ELSE NoReq]
        /\ txOpen = [p \in AllProcs |-> FALSE]
        /\ txWrites = [p \in AllProcs |-> {}]
        /\ txRecs = [p \in AllProcs |-> {}]
        /\ loc = [p \in AllProcs |-> IF p <= n THEN [NoLoc EXCEPT !.id = p] ELSE NoLoc]
        /\ result = [p \in AllProcs |-> NoResult]
        /\ ops = n

NextW ==
    \E p \in WProcs :
        \/ Begin(p)
        \/ WithdrawalLock(p)
        \/ ReadBalance(p)
        \/ CreateTransactionRecord(p)
        \/ UpdateAccountBalance(p)
        \/ UpdateTransactionStatus(p)
        \/ TxCommit(p)

SpecW == InitW /\ [][NextW]_vars

\* ------------------------------------------------- the HTTP handlers
\* every call enters through the handlers deposit, withdrawal, transfer and
\* create_transaction of api/transactions.rs
NextApi ==
    \E p \in Procs :
        \/ ApiHandler(p)
        \/ ApiCreateTransaction(p)
        \/ ApiOwner(p)
        \/ ApiSender(p)
        \/ ApiReceiver(p)
        \/ CreateTransaction(p)
        \/ Begin(p)
        \/ BeginFails(p)
        \/ DepositLock(p)
        \/ WithdrawalLock(p)
        \/ TransferLockSender(p)
        \/ TransferLockReceiver(p)
        \/ ReadBalance(p)
        \/ CreateTransactionRecord(p)
        \/ UpdateAccountBalance(p)
        \/ UpdateTransactionStatus(p)
        \/ TxCommit(p)
        \/ Abort(p)
        \/ DeadlockDetected(p)

SpecApi == Init /\ [][NextApi]_vars

\* ------------------------------------- create_account and create_user
\* Every statement of the two functions runs on the pool: each is its own
\* store transaction, committed when the statement ends.

\* Uuid::new_v4() of the n-th call: the id of its user row, of its account row
UserUuids == <<"u3", "u4", "u5", "u6">>
AccountUuids == <<"a4", "a5", "a6", "a7">>

\* the user ids and usernames a caller may name
UserIds == Users \cup {"u0"} \cup {UserUuids[n] : n \in 1..MaxOps}
Usernames == {"u1", "bob", "eve"}

\* the strings a caller may pass as currency
AccountCurrencies == {"USD", "EUR", "US"}

\* a lookup that finds every user
UserExistsAlways(id) == TRUE

\* SELECT id FROM users WHERE id = $1 ... is_some()
UserExists(id) == \E u \in users : u.id = id

\* SELECT id FROM users WHERE username = $1 OR email = $2 ... is_some()
ExistingUser(name) == \E u \in users : u.username = name

\* INSERT INTO accounts (id, user_id, balance, currency) VALUES (.., .., 0, ..)
NewAccount(id, owner, cur) ==
    [id |-> id, user_id |-> owner, balance |-> 0, currency |-> cur]

\* every row of table accounts with its owner
Owners == {user_id(a) : a \in Accounts} \cup {a.user_id : a \in accounts}

\* a call of AccountService::create_account(user_id, currency) by the library's
\* caller
CallCreateAccount(p) ==
    /\ pc[p] = "idle"
    /\ ops < MaxOps
    /\ \E u \in UserIds, cur \in AccountCurrencies :
        req' = [req EXCEPT ![p] = [NoReq EXCEPT !.op = CREATE_ACCOUNT, !.via = "svc",
                                                  !.caller = u, !.currency = cur]]
    /\ pc' = [pc EXCEPT ![p] = "user_exists"]
    /\ ops' = ops + 1
    /\ loc' = [loc EXCEPT ![p] = [NoLoc EXCEPT !.id = ops + 1]]
    /\ result' = [result EXCEPT ![p] = NoResult]
    /\ UNCHANGED <<balance, transactions, lockHolder, txOpen, txWrites, txRecs,
                   scenario, users, accounts>>

\* the HTTP handler create_account: request.validate(), then the service is
\* called with the authenticated user's id
ApiCreateAccount(p) ==
    /\ pc[p] = "idle"
    /\ ops < MaxOps
    /\ \E u \in users, cur \in AccountCurrencies :
        LET r == [NoReq EXCEPT !.op = CREATE_ACCOUNT, !.via = "api",
                               !.caller = u.id, !.currency = cur]
        IN  IF validate_currency(cur)
            THEN /\ req' = [req EXCEPT ![p] = r]
                 /\ pc' = [pc EXCEPT ![p] = "user_exists"]
                 /\ result' = [result EXCEPT ![p] = NoResult]
                 /\ loc' = [loc EXCEPT ![p] = [NoLoc EXCEPT !.id = ops + 1]]
            ELSE /\ req' = [req EXCEPT ![p] = [r EXCEPT !.caller = "-"]]
                 /\ pc' = pc
                 /\ result' = [result EXCEPT ![p] = ErrValidation]
                 /\ loc' = [loc EXCEPT ![p] = NoLoc]
    /\ ops' = ops + 1
    /\ UNCHANGED <<balance, transactions, lockHolder, txOpen, txWrites, txRecs,
                   scenario, users, accounts>>

\* a call on the pool returns: the request is kept for the record
PoolReturns(p, res) ==
    /\ pc' = [pc EXCEPT ![p] = "idle"]
    /\ result' = [result EXCEPT ![p] = res]
    /\ loc' = [loc EXCEPT ![p] = NoLoc]
    /\ UNCHANGED <<balance, transactions, lockHolder, req, txOpen, txWrites,
                   txRecs, ops, scenario>>

\* create_account: SELECT id FROM users WHERE id = $1, NotFound if none
CreateAccountUserExists(p) ==
    /\ pc[p] = "user_exists"
    /\ IF UserExists(req[p].caller)
       THEN /\ pc' = [pc EXCEPT ![p] = "insert_account"]
            /\ UNCHANGED <<balance, transactions, lockHolder, req, txOpen, txWrites,
                           txRecs, loc, result, ops, scenario, users, accounts>>
       ELSE /\ PoolReturns(p, ErrNotFound)
            /\ UNCHANGED <<users, accounts>>

\* create_account: INSERT INTO accounts ... '0', currency; the answer may be
\* lost (connection error, dropped future) after the row was stored
CreateAccountInsert(p) ==
    /\ pc[p] = "insert_account"
    /\ accounts' = accounts \cup
            {NewAccount(AccountUuids[loc[p].id], req[p].caller, req[p].currency)}
    /\ \E res \in {Ok, ErrDatabase, Cancelled} : PoolReturns(p, res)
    /\ UNCHANGED users

\* a call of UserService::create_user(user_data)
CallCreateUser(p) ==
    /\ pc[p] = "idle"
    /\ ops < MaxOps
    /\ \E name \in Usernames :
        req' = [req EXCEPT ![p] = [NoReq EXCEPT !.op = CREATE_USER, !.via = "svc",
                                                  !.caller = name]]
    /\ pc' = [pc EXCEPT ![p] = "existing_user"]
    /\ ops' = ops + 1
    /\ loc' = [loc EXCEPT ![p] = [NoLoc EXCEPT !.id = ops + 1]]
    /\ result' = [result EXCEPT ![p] = NoResult]
    /\ UNCHANGED <<balance, transactions, lockHolder, txOpen, txWrites, txRecs,
                   scenario, users, accounts>>

\* create_user: SELECT id FROM users WHERE username = $1 OR email = $2,
\* Conflict if there is one
CreateUserExisting(p) ==
    /\ pc[p] = "existing_user"
    /\ IF ExistingUser(req[p].caller)
       THEN /\ PoolReturns(p, ErrConflict)
            /\ UNCHANGED <<users, accounts>>
       ELSE /\ pc' = [pc EXCEPT ![p] = "insert_user"]
            /\ UNCHANGED <<balance, transactions, lockHolder, req, txOpen, txWrites,
                           txRecs, loc, result, ops, scenario, users, accounts>>

\* create_user: INSERT INTO users.  A concurrent registration of the same
\* username may have stored its row since the SELECT: whether the store then
\* refuses the second row is decided by the schema, which is not part of the
\* sources, so both outcomes are possible.
CreateUserInsertUser(p) ==
    /\ pc[p] = "insert_user"
    /\ \/ /\ users' = users \cup
                {[id |-> UserUuids[loc[p].id], username |-> req[p].caller]}
          /\ pc' = [pc EXCEPT ![p] = "default_account"]
          /\ UNCHANGED <<balance, transactions, lockHolder, req, txOpen, txWrites,
                         txRecs, loc, result, ops, scenario, accounts>>
       \/ /\ ExistingUser(req[p].caller)
          /\ PoolReturns(p, ErrDatabase)
          /\ UNCHANGED <<users, accounts>>

\* create_user: INSERT INTO accounts ... 0, 'USD' for the new user
CreateUserInsertAccount(p) ==
    /\ pc[p] = "default_account"
    /\ accounts' = accounts \cup
            {NewAccount(AccountUuids[loc[p].id], UserUuids[loc[p].id], "USD")}
    /\ \E res \in {Ok, ErrDatabase, Cancelled} : PoolReturns(p, res)
    /\ UNCHANGED users

\* the store fails the statement the call is about to run (sqlx::Error ->
\* AppError::Database by `?`), or the future is dropped before it runs
PoolFails(p) ==
    /\ pc[p] \in {"user_exists", "insert_account", "existing_user", "insert_user",
                  "default_account"}
    /\ \E err \in {ErrDatabase, Cancelled} : PoolReturns(p, err)
    /\ UNCHANGED <<users, accounts>>

NextAcct ==
    \E p \in Procs :
        \/ CallCreateAccount(p)
        \/ ApiCreateAccount(p)
        \/ CreateAccountUserExists(p)
        \/ CreateAccountInsert(p)
        \/ CallCreateUser(p)
        \/ CreateUserExisting(p)
        \/ CreateUserInsertUser(p)
        \/ CreateUserInsertAccount(p)
        \/ PoolFails(p)

SpecAcct == Init /\ [][NextAcct]_vars

\* ------------------------------------------------------------ the reads
\* get_account_by_id, get_accounts_by_user_id, get_transaction_by_id and
\* get_transactions_by_account_id each run one SELECT on the pool: a statement
\* of its own at READ COMMITTED, which sees the committed rows only and waits
\* for no row lock.  One caller writes (Writers), with amounts that pass the
\* validation, while another reads (Readers).
Writers == {1}
Readers == {2}

\* limit.unwrap_or(100), offset.unwrap_or(0)
DefaultLimit == 100
DefaultOffset == 0

unwrap_or(o, default) == IF o = None THEN default ELSE o[1]

\* the values a caller passes as limit and as offset
Limits == {None} \cup {<<n>> : n \in (0 - 1)..MaxPage}
Offsets == {None} \cup {<<n>> : n \in (0 - 1)..MaxSkip}

\* the ids a caller may ask get_transaction_by_id for
TransactionIds == 0..(MaxOps + 1)

ReadRequest(op) == [NoReq EXCEPT !.op = op, !.via = "svc"]

ReadRequests ==
    {[ReadRequest(GET_ACCOUNT_BY_ID) EXCEPT !.account_id = a] : a \in AccountIds}
    \cup {[ReadRequest(GET_ACCOUNTS_BY_USER_ID) EXCEPT !.user_id = u] :
            u \in Users \cup {"u0"}}
    \cup {[ReadRequest(GET_TRANSACTION_BY_ID) EXCEPT !.transaction_id = t] :
            t \in TransactionIds}
    \cup {[ReadRequest(GET_TRANSACTIONS_BY_ACCOUNT_ID) EXCEPT
                !.account_id = a, !.limit = l, !.offset = o] :
            a \in AccountIds, l \in Limits, o \in Offsets}

\* the reader polls: its first call chooses the function and the arguments,
\* every later call repeats them
Asked(p) == IF req[p] = NoReq THEN ReadRequests ELSE {req[p]}

\* a row of table accounts
AccountRow(a) ==
    [id |-> a, user_id |-> user_id(a), balance |-> balance[a],
     currency |-> currency(a)]

\* FROM accounts: the committed rows
AccountsTable == {AccountRow(a) : a \in Accounts} \cup accounts

\* a read that also sees the rows of store transactions still open
VisibleDirty == transactions \cup UNION {txRecs[p] : p \in AllProcs}

\* FROM transactions: the committed rows
Visible == transactions

\* Transaction.created_at, filled in by the store when the row is inserted.
\* The single writer makes its calls one after the other and numbers them, so
\* the number of the call orders the rows as their creation times do.
created_at(t) == t.id

\* a query that looks at the sender only
WhereSender(a) == {t \in Visible : t.sender_account_id = a}

\* WHERE sender_account_id = $1 OR receiver_account_id = $1
WhereSenderOrReceiver(a) ==
    {t \in Visible : t.sender_account_id = a \/ t.receiver_account_id = a}

\* ORDER BY created_at DESC
RECURSIVE OrderByCreatedAtDesc(_)
OrderByCreatedAtDesc(S) ==
    IF S = {} THEN <<>>
    ELSE LET t == CHOOSE t \in S : \A u \in S : created_at(u) <= created_at(t)
         IN  <<t>> \o OrderByCreatedAtDesc(S \ {t})

\* LIMIT $2 OFFSET $3, both >= 0
LimitOffset(rows, limit, offset) ==
    LET last == IF offset + limit < Len(rows) THEN offset + limit ELSE Len(rows)
    IN  SubSeq(rows, offset + 1, last)

\* the call returns: its arguments, result and rows are kept for the record
ReadReturns(p, r, res, data) ==
    /\ req' = [req EXCEPT ![p] = r]
    /\ result' = [result EXCEPT ![p] = res]
    /\ loc' = [loc EXCEPT ![p] = [NoLoc EXCEPT !.data = data,
                                              !.snapshot = <<balance, transactions>>]]
    /\ UNCHANGED <<balance, transactions, lockHolder, pc, txOpen, txWrites, txRecs,
                   ops, scenario, users, accounts>>

\* AccountService::get_account_by_id
GetAccountById(p) ==
    /\ pc[p] = "idle"
    /\ \E r \in Asked(p) :
        /\ r.op = GET_ACCOUNT_BY_ID
        /\ LET rows == {a \in AccountsTable : a.id = r.account_id} IN
            IF rows = {} THEN ReadReturns(p, r, ErrNotFound, {})
            ELSE ReadReturns(p, r, Ok, rows)

\* AccountService::get_accounts_by_user_id: the rows come in no stated order
GetAccountsByUserId(p) ==
    /\ pc[p] = "idle"
    /\ \E r \in Asked(p) :
        /\ r.op = GET_ACCOUNTS_BY_USER_ID
        /\ ReadReturns(p, r, Ok, {a \in AccountsTable : a.user_id = r.user_id})

\* TransactionService::get_transaction_by_id
GetTransactionById(p) ==
    /\ pc[p] = "idle"
    /\ \E r \in Asked(p) :
        /\ r.op = GET_TRANSACTION_BY_ID
        /\ LET rows == {t \in Visible : t.id = r.transaction_id} IN
            IF rows = {} THEN ReadReturns(p, r, ErrNotFound, {})
            ELSE ReadReturns(p, r, Ok, rows)

\* TransactionService::get_transactions_by_account_id; the store refuses a
\* negative LIMIT or OFFSET
GetTransactionsByAccountId(p) ==
    /\ pc[p] = "idle"
    /\ \E r \in Asked(p) :
        /\ r.op = GET_TRANSACTIONS_BY_ACCOUNT_ID
        /\ LET limit == unwrap_or(r.limit, DefaultLimit)
               offset == unwrap_or(r.offset, DefaultOffset)
           IN  IF limit < 0 \/ offset < 0
               THEN ReadReturns(p, r, ErrDatabase, <<>>)
               ELSE ReadReturns(p, r, Ok,
                        LimitOffset(OrderByCreatedAtDesc(WhereSenderOrReceiver(r.account_id)),
                                    limit, offset))

\* the store fails the SELECT: sqlx::Error -> AppError::Database by `?`
ReadFails(p) ==
    /\ pc[p] = "idle"
    /\ \E r \in Asked(p) :
        ReadReturns(p, r, ErrDatabase,
                    IF r.op = GET_TRANSACTIONS_BY_ACCOUNT_ID THEN <<>> ELSE {})

NextRead ==
    \/ \E p \in Writers :
        \/ CallService(p) /\ validate_positive_amount(req'[p].amount)
        \/ Begin(p)
        \/ BeginFails(p)
        \/ DepositLock(p)
        \/ WithdrawalLock(p)
        \/ TransferLockSender(p)
        \/ TransferLockReceiver(p)
        \/ ReadBalance(p)
        \/ CreateTransactionRecord(p)
        \/ UpdateAccountBalance(p)
        \/ UpdateTransactionStatus(p)
        \/ TxCommit(p)
        \/ UpdateBalanceLock(p)
        \/ UpdateBalanceWrite(p)
        \/ Abort(p)
    \/ \E p \in Readers :
        \/ GetAccountById(p)
        \/ GetAccountsByUserId(p)
        \/ GetTransactionById(p)
        \/ GetTransactionsByAccountId(p)
        \/ ReadFails(p)

SpecRead == Init /\ [][NextRead]_vars



\* =============================================================== claims
InFlight(p) == pc[p] # "idle"

\* p's step ends its call
Returns(p) == InFlight(p) /\ pc'[p] = "idle"

\* p's step is the commit that ends its call successfully
Commits(p) == pc[p] = "commit" /\ pc'[p] = "idle" /\ result'[p] = Ok

\* the change a committed request r makes to the balance of account a
Delta(r, a) ==
    (IF a = r.receiver THEN r.amount ELSE 0) - (IF a = r.sender THEN r.amount ELSE 0)

RECURSIVE SumAmounts(_)
SumAmounts(S) ==
    IF S = {} THEN 0
    ELSE LET t == CHOOSE t \in S : TRUE IN t.amount + SumAmounts(S \ {t})

Completed == {t \in transactions : t.status = COMPLETED}

\* C1: every account's committed balance is >= 0 in every reachable state,
\* whatever deposits, withdrawals, transfers and update_balance calls ran
C1_NonNegativeBalance == \A a \in Accounts : balance[a] >= 0

\* a committed withdrawal has emptied its account
C1_Witness ==
    \E t \in Completed :
        /\ t.transaction_type = WITHDRAWAL
        /\ t.amount > 0
        /\ balance[t.sender_account_id] = 0

Callers == 1..scenario.n

AllReturned == \A p \in Callers : pc[p] = "idle"

\* C2: once the N concurrent process_withdrawal(a1, X) calls against a balance
\* of N*X - 1 have all returned, exactly N-1 returned Ok, exactly one returned
\* Insufficient funds, and the balance is X - 1
C2_ConcurrentWithdrawals ==
    AllReturned =>
        /\ Cardinality({p \in Callers : result[p] = Ok}) = scenario.n - 1
        /\ Cardinality({p \in Callers : result[p] = ErrInsufficientFunds}) = 1
        /\ balance["a1"] = scenario.x - 1

\* at least two callers raced and all have returned
C2_Witness ==
    /\ scenario.n >= 2
    /\ AllReturned
    /\ \E p \in Callers : result[p] = Ok

\* C3: the commit of a transfer of X from A to B takes X from the committed
\* balance of A and adds X to the committed balance of B, so their sum is
\* unchanged; the sender balance it tested is the committed balance of A
C3_TransferConservation ==
    [][\A p \in AllProcs :
        (Commits(p) /\ req[p].op = TRANSFER) =>
            LET A == req[p].sender
                B == req[p].receiver
                X == req[p].amount
            IN /\ balance'[A] = balance[A] - X
               /\ balance'[B] = balance[B] + X
               /\ balance'[A] + balance'[B] = balance[A] + balance[B]
               /\ loc[p].balance = balance[A]]_vars

\* a transfer of a positive amount is committed
C3_Witness ==
    \E t \in Completed :
        /\ t.transaction_type = TRANSFER
        /\ t.amount > 0
        /\ balance[t.receiver_account_id] >= t.amount

ValidationErrors ==
    {ErrValidation, ErrSameAccount, ErrCurrencyMismatch, ErrInsufficientFunds}

\* p's step makes its call return a validation error
FailsValidation(p) ==
    /\ result'[p] \in ValidationErrors
    /\ pc'[p] = "idle"
    /\ InFlight(p) \/ req'[p] # req[p]

\* C4: a call that returns a validation error (invalid amount, self-transfer,
\* currency mismatch, insufficient funds) has written nothing in its store
\* transaction and leaves the committed balances and rows as they were, and
\* committed state only ever changes by the commit of a call that returns Ok
C4_FailedValidationChangesNothing ==
    [][/\ \A p \in AllProcs :
            FailsValidation(p) =>
                /\ balance' = balance
                /\ transactions' = transactions
                /\ txWrites[p] = {}
                /\ txRecs[p] = {}
       /\ (balance' # balance \/ transactions' # transactions) =>
            \E q \in AllProcs : Commits(q)]_vars

\* one call was refused for insufficient funds and another for its amount
C4_Witness ==
    \E p, q \in AllProcs :
        /\ result[p] = ErrInsufficientFunds
        /\ result[q] = ErrValidation
        /\ req[q].amount <= 0
        /\ pc[p] = "idle"
        /\ pc[q] = "idle"

\* C5: two transfers over the same pair of accounts in opposite directions
\* never wait for each other's row lock
C5_NoCircularWait ==
    \A p, q \in AllProcs :
        ~(/\ req[p].op = TRANSFER
          /\ req[q].op = TRANSFER
          /\ req[p].sender = req[q].receiver
          /\ req[p].receiver = req[q].sender
          /\ WaitsFor(p, q)
          /\ WaitsFor(q, p))

\* C6: while a transfer is between its two balance updates or past them, every
\* step (its commit, its failure, its cancellation, a step of another call)
\* leaves the committed balances of sender and receiver both unchanged or
\* changes both, by -X and +X
C6_NoPartialTransfer ==
    [][\A p \in AllProcs :
        (req[p].op = TRANSFER /\ pc[p] \in {"credit", "status", "commit"}) =>
            LET A == req[p].sender
                B == req[p].receiver
                X == req[p].amount
            IN \/ balance'[A] = balance[A] /\ balance'[B] = balance[B]
               \/ balance'[A] = balance[A] - X /\ balance'[B] = balance[B] + X]_vars

\* a transfer has debited its sender inside its store transaction and not yet
\* credited the receiver
C6_Witness ==
    \E p \in AllProcs :
        /\ req[p].op = TRANSFER
        /\ pc[p] = "credit"
        /\ req[p].amount > 0
        /\ View(p, req[p].sender) = balance[req[p].sender] - req[p].amount

\* the balance a call has read for its decision is the committed balance
ReadCurrent ==
    \A p \in AllProcs :
        /\ (req[p].op \in {WITHDRAWAL, TRANSFER}
                /\ pc[p] \in {"insert", "debit", "credit", "status", "commit"})
            => loc[p].balance = balance[req[p].sender]
        /\ (req[p].op = UPDATE_BALANCE /\ pc[p] \in {"write", "commit"})
            => loc[p].balance = balance[req[p].receiver] + req[p].amount

\* C7: a call blocked on a row lock proceeds only after the holder has ended;
\* the balance a call decided on is still the committed balance until the call
\* ends, and every commit changes each committed balance by exactly the call's
\* own delta, so no update of another call is lost
C7_NoLostUpdate ==
    [][/\ ReadCurrent'
       /\ \A p \in AllProcs :
            Commits(p) => \A a \in Accounts : balance'[a] = balance[a] + Delta(req[p], a)
       /\ \A p, q \in AllProcs :
            WaitsFor(p, q) => pc'[p] \in {pc[p], "idle"}]_vars

\* a call waits for the row lock of a call that is about to commit a change
C7_Witness ==
    \E p, q \in AllProcs :
        /\ WaitsFor(p, q)
        /\ pc[q] = "commit"
        /\ req[q].amount # 0

\* the rows whose lock the call must hold at its position
MustHold(p) ==
    IF req[p].op = TRANSFER
    THEN IF pc[p] = "lock_receiver" THEN {req[p].sender}
         ELSE IF pc[p] \in {"read_balance", "insert", "debit", "credit", "status", "commit"}
              THEN {req[p].sender, req[p].receiver}
              ELSE {}
    ELSE IF pc[p] \in {"read_balance", "insert", "debit", "credit", "status", "write",
                       "commit"}
         THEN {Target(req[p])}
         ELSE {}

\* C8: from the statement that reads an account's currency or balance for a
\* decision until the call commits or rolls back, the call's store transaction
\* holds the row lock of that account
C8_DecisionsUnderLock ==
    \A p \in AllProcs : \A a \in MustHold(p) : a \in Accounts /\ lockHolder[a] = p

\* a transfer is about to test the sender's balance while another call waits
\* for one of its rows
C8_Witness ==
    \E p, q \in AllProcs :
        /\ req[p].op = TRANSFER
        /\ pc[p] = "read_balance"
        /\ WaitsFor(q, p)

ViaApi(r) == r.via \in {"api", "api_generic"}

C10_LedgerEquation ==
    \A a \in Accounts :
        balance[a] = SumAmounts({t \in Completed : t.receiver_account_id = a})
                     - SumAmounts({t \in Completed : t.sender_account_id = a})

\* every transaction row: the committed ones and the uncommitted ones
AllRows == transactions \cup UNION {txRecs[p] : p \in AllProcs}

\* C11: a transaction row is created with status PENDING; while it is
\* uncommitted its status stays or moves from PENDING to COMPLETED or FAILED;
\* a committed row comes from the committing call's store transaction with the
\* status it had there, never changes again and never disappears
C11_StatusStateMachine ==
    [][/\ \A p \in AllProcs :
            /\ \A t \in txRecs'[p] :
                    (~ \E u \in txRecs[p] : u.id = t.id) => t.status = PENDING
            /\ \A u \in txRecs[p] : \A t \in txRecs'[p] :
                    u.id = t.id =>
                        \/ t.status = u.status
                        \/ u.status = PENDING /\ t.status \in {COMPLETED, FAILED}
       /\ \A u \in transactions : u \in transactions'
       /\ \A t \in transactions' \ transactions :
            \E p \in AllProcs : t \in txRecs[p] /\ t.status \in {COMPLETED, FAILED}
       /\ \A t, u \in transactions' : t.id = u.id => t = u]_vars

\* one call's row is still PENDING while the row of an earlier call is
\* committed as COMPLETED
C11_Witness ==
    /\ \E p \in AllProcs : \E t \in txRecs[p] : t.status = PENDING
    /\ \E u \in transactions : u.id > 0 /\ u.status = COMPLETED

\* C12: no row, committed or uncommitted, ever has status FAILED, and a call
\* that returns an error leaves the committed rows as they were
C12_NeverFailed ==
    [][/\ \A t \in AllRows' : t.status # FAILED
       /\ \A p \in AllProcs :
            (Returns(p) /\ result'[p] # Ok) => transactions' = transactions]_vars

\* a call failed after it had inserted its PENDING row, and the committed rows
\* are those of the initial state
C12_Witness ==
    /\ \E p \in AllProcs : pc[p] = "idle" /\ result[p] = ErrCheck
    /\ transactions = SeedRows

\* C13: a call that ends without Ok after its store transaction opened leaves
\* the committed balances and rows unchanged and keeps nothing uncommitted, and
\* every committed row has status COMPLETED
C13_RollbackIsTotal ==
    [][/\ \A t \in transactions' : t.status = COMPLETED
       /\ \A p \in AllProcs :
            (txOpen[p] /\ Returns(p) /\ result'[p] # Ok) =>
                /\ balance' = balance
                /\ transactions' = transactions
                /\ txRecs'[p] = {}
                /\ txWrites'[p] = {}]_vars

\* a call failed on its balance update, after its PENDING row was inserted,
\* while the row of another call is committed
C13_Witness ==
    /\ \E p \in AllProcs : pc[p] = "idle" /\ result[p] = ErrCheck
    /\ \E u \in transactions : u.id > 0

\* C14: a call that has returned has no open store transaction, no
\* uncommitted write or row and no row lock, and a row lock is only ever held
\* by an open store transaction
C14_NothingHeldAfterReturn ==
    /\ \A p \in AllProcs :
            pc[p] = "idle" =>
                /\ ~txOpen[p]
                /\ txWrites[p] = {}
                /\ txRecs[p] = {}
                /\ \A a \in Accounts : lockHolder[a] # p
    /\ \A a \in Accounts : lockHolder[a] # 0 => txOpen[lockHolder[a]]

\* a transfer returned Currency mismatch after locking both rows, and another
\* call returned Ok
C14_Witness ==
    \E p, q \in AllProcs :
        /\ pc[p] = "idle" /\ result[p] = ErrCurrencyMismatch
        /\ pc[q] = "idle" /\ result[q] = Ok

\* C15: when the store aborts a call's store transaction for deadlock, the
\* call starts again from its first step with the same request, or returns
\* Conflict
C15_DeadlockRetried ==
    [][\A p \in AllProcs :
        DeadlockDetected(p) =>
            \/ pc'[p] = "begin" /\ req'[p] = req[p]
            \/ pc'[p] = "idle" /\ result'[p] = ErrConflict]_vars

\* C16: no call returns the store's own error for a rejected balance (check
\* constraint) or for a deadlock
C16_NoRawStoreError ==
    \A p \in AllProcs : result[p] \notin {ErrCheck, ErrDeadlock}

\* what ends a call from outside: the store fails a statement, or the call is
\* cancelled
Interrupted == {ErrDatabase, Cancelled}

\* C17: a process_deposit of X > 0 into an existing account returns Ok unless
\* it is interrupted, and its commit adds X to the committed balance of that
\* account only and adds exactly one row: COMPLETED, DEPOSIT, receiver the
\* account, no sender, amount X
C17_DepositPostcondition ==
    [][\A p \in AllProcs :
        (/\ req[p].op = DEPOSIT
         /\ req[p].amount > 0
         /\ req[p].receiver \in Accounts
         /\ Returns(p)) =>
            LET a == req[p].receiver
                X == req[p].amount
            IN /\ result'[p] \in {Ok} \cup Interrupted
               /\ result'[p] = Ok =>
                    /\ balance' = [balance EXCEPT ![a] = @ + X]
                    /\ \E t \in transactions' \ transactions :
                        /\ transactions' = transactions \cup {t}
                        /\ t.status = COMPLETED
                        /\ t.transaction_type = DEPOSIT
                        /\ t.receiver_account_id = a
                        /\ t.sender_account_id = NULL
                        /\ t.amount = X
                        /\ t.currency = currency(a)]_vars

\* a deposit of a positive amount into an account that already held money is
\* committed
C17_Witness ==
    \E t \in Completed :
        /\ t.id > 0
        /\ t.transaction_type = DEPOSIT
        /\ t.amount > 0
        /\ balance[t.receiver_account_id] > t.amount

\* C18: a process_withdrawal of X > 0 from an existing account with committed
\* balance b returns Ok only if b >= X, and then leaves b - X and one row
\* COMPLETED, WITHDRAWAL, sender the account, no receiver, amount X; it returns
\* Insufficient funds only if b < X, having written nothing, and the balance
\* stays b; it returns nothing else unless it is interrupted
C18_WithdrawalPostcondition ==
    [][\A p \in AllProcs :
        (/\ req[p].op = WITHDRAWAL
         /\ req[p].amount > 0
         /\ req[p].sender \in Accounts
         /\ Returns(p)) =>
            LET a == req[p].sender
                X == req[p].amount
            IN /\ result'[p] \in {Ok, ErrInsufficientFunds} \cup Interrupted
               /\ result'[p] = Ok =>
                    /\ balance[a] >= X
                    /\ balance' = [balance EXCEPT ![a] = @ - X]
                    /\ \E t \in transactions' \ transactions :
                        /\ transactions' = transactions \cup {t}
                        /\ t.status = COMPLETED
                        /\ t.transaction_type = WITHDRAWAL
                        /\ t.sender_account_id = a
                        /\ t.receiver_account_id = NULL
                        /\ t.amount = X
               /\ result'[p] = ErrInsufficientFunds =>
                    /\ balance[a] < X
                    /\ balance' = balance
                    /\ transactions' = transactions
                    /\ txWrites[p] = {}
                    /\ txRecs[p] = {}]_vars

\* a withdrawal of the exact balance is committed and a later withdrawal was
\* refused for insufficient funds
C18_Witness ==
    /\ \E t \in Completed :
            /\ t.transaction_type = WITHDRAWAL
            /\ t.amount > 0
            /\ balance[t.sender_account_id] = 0
    /\ \E p \in AllProcs : pc[p] = "idle" /\ result[p] = ErrInsufficientFunds

\* a transfer between two different existing accounts of different currencies
MismatchedTransfer(r) ==
    /\ r.op = TRANSFER
    /\ r.sender \in Accounts
    /\ r.receiver \in Accounts
    /\ r.sender # r.receiver
    /\ currency(r.sender) # currency(r.receiver)

\* C19: a transfer between two existing accounts of different currencies never
\* gets past the currency comparison, writes nothing, and returns Currency
\* mismatch unless it is interrupted or aborted for deadlock; its return
\* changes no committed balance and no committed row
C19_CurrencyMismatchRejected ==
    [][\A p \in AllProcs :
        MismatchedTransfer(req[p]) =>
            /\ pc'[p] \in {"begin", "lock_sender", "lock_receiver", "idle"}
            /\ txWrites'[p] = {}
            /\ txRecs'[p] = {}
            /\ Returns(p) =>
                /\ result'[p] \in {ErrCurrencyMismatch, ErrDeadlock} \cup Interrupted
                /\ balance' = balance
                /\ transactions' = transactions]_vars

\* a transfer returned Currency mismatch and the committed state is the
\* initial one
C19_Witness ==
    /\ \E p \in AllProcs : pc[p] = "idle" /\ result[p] = ErrCurrencyMismatch
    /\ balance["a1"] = SeedBalance
    /\ transactions = SeedRows

\* C20: a transfer whose sender id equals its receiver id never takes a row
\* lock, writes nothing, and returns Cannot transfer to the same account
\* unless it is interrupted; its return changes no committed balance, no
\* committed row and no row lock
C20_SelfTransferRejected ==
    [][\A p \in AllProcs :
        (req[p].op = TRANSFER /\ req[p].sender = req[p].receiver) =>
            /\ pc'[p] \in {"begin", "idle"}
            /\ \A a \in Accounts : lockHolder[a] # p /\ lockHolder'[a] # p
            /\ txWrites'[p] = {}
            /\ txRecs'[p] = {}
            /\ Returns(p) =>
                /\ result'[p] \in {ErrSameAccount} \cup Interrupted
                /\ balance' = balance
                /\ transactions' = transactions
                /\ lockHolder' = lockHolder]_vars

\* a self-transfer was refused while another call holds a row lock
C20_Witness ==
    /\ \E p \in AllProcs : pc[p] = "idle" /\ result[p] = ErrSameAccount
    /\ \E a \in Accounts : lockHolder[a] # 0

\* a deposit, withdrawal or transfer naming an account id that has no row (a
\* transfer whose two ids are equal is refused before any lookup)
NamesMissingAccount(r) ==
    \/ r.op = DEPOSIT /\ r.receiver \notin Accounts
    \/ r.op = WITHDRAWAL /\ r.sender \notin Accounts
    \/ /\ r.op = TRANSFER
       /\ r.sender # r.receiver
       /\ r.sender \notin Accounts \/ r.receiver \notin Accounts

\* C21: a deposit, withdrawal or transfer naming a missing account never gets
\* past its lookups and writes nothing; it returns NotFound unless it is
\* interrupted, and its return changes no committed balance and no committed
\* row and leaves no row lock with the call (the sender row a transfer had
\* locked before it missed the receiver is released)
C21_MissingAccountRejected ==
    [][\A p \in AllProcs :
        NamesMissingAccount(req[p]) =>
            /\ pc'[p] \in {"begin", "lock_account", "lock_sender", "lock_receiver",
                            "idle"}
            /\ txWrites'[p] = {}
            /\ txRecs'[p] = {}
            /\ Returns(p) =>
                /\ result'[p] \in {ErrNotFound} \cup Interrupted
                /\ balance' = balance
                /\ transactions' = transactions
                /\ \A a \in Accounts : lockHolder'[a] # p]_vars

\* a transfer holds the row lock of its existing sender and is about to look
\* up a receiver that has no row, after another call returned NotFound
C21_Witness ==
    \E p, q \in AllProcs :
        /\ req[p].op = TRANSFER
        /\ pc[p] = "lock_receiver"
        /\ req[p].receiver \notin Accounts
        /\ lockHolder[req[p].sender] = p
        /\ pc[q] = "idle" /\ result[q] = ErrNotFound

\* the shape a transaction row must have for its type
LegalShape(t) ==
    \/ /\ t.transaction_type = TRANSFER
       /\ t.sender_account_id # NULL
       /\ t.receiver_account_id # NULL
       /\ t.sender_account_id # t.receiver_account_id
    \/ /\ t.transaction_type = DEPOSIT
       /\ t.sender_account_id = NULL
       /\ t.receiver_account_id # NULL
    \/ /\ t.transaction_type = WITHDRAWAL
       /\ t.sender_account_id # NULL
       /\ t.receiver_account_id = NULL

Unroutable(r) ==
    \/ r.op \notin {TRANSFER, DEPOSIT, WITHDRAWAL}
    \/ r.op = TRANSFER /\ r.sender = NULL
    \/ r.op = TRANSFER /\ r.receiver = NULL
    \/ r.op = DEPOSIT /\ r.receiver = NULL
    \/ r.op = WITHDRAWAL /\ r.sender = NULL

\* C23: when create_transaction is called with an invalid type tag or without
\* a party id its type needs, its one step returns BadRequest, no store
\* transaction is opened and no variable of the store changes
C23_UnroutableRejected ==
    [][\A p \in AllProcs :
        (pc[p] = "route" /\ Unroutable(req[p]) /\ pc'[p] # "route") =>
            /\ pc'[p] = "idle"
            /\ result'[p] = IF req[p].op \in {TRANSFER, DEPOSIT, WITHDRAWAL}
                            THEN ErrMissingParty ELSE ErrInvalidType
            /\ ~txOpen[p] /\ txOpen' = txOpen
            /\ balance' = balance
            /\ transactions' = transactions
            /\ lockHolder' = lockHolder
            /\ txWrites' = txWrites
            /\ txRecs' = txRecs]_vars

\* one call was refused for its type tag and another for a missing party id,
\* and the committed state is the initial one
C23_Witness ==
    /\ \E p \in AllProcs : pc[p] = "idle" /\ result[p] = ErrInvalidType
    /\ \E p \in AllProcs : pc[p] = "idle" /\ result[p] = ErrMissingParty
    /\ transactions = SeedRows
    /\ \A p \in AllProcs : ~txOpen[p]

\* a request create_transaction routes: a known tag and the ids it needs
WellFormed(r) == r.via = "api_generic" /\ ~Unroutable(r)

\* the arguments of the direct call that a well-formed generic request
\* stands for: process_transfer(sender, receiver, amount),
\* process_deposit(receiver, amount), process_withdrawal(sender, amount)
Mapped(r) ==
    [op |-> r.op,
     sender |-> IF r.op = DEPOSIT THEN NULL ELSE r.sender,
     receiver |-> IF r.op = WITHDRAWAL THEN NULL ELSE r.receiver,
     amount |-> r.amount]

Arguments(r) ==
    [op |-> r.op, sender |-> r.sender, receiver |-> r.receiver, amount |-> r.amount]

\* C24: create_transaction hands a well-formed generic request to the protocol
\* of its type with exactly the mapped ids and the amount, without the
\* request's currency and without an id the type does not need, in a step
\* that changes nothing else; and the commit of a call that came this way has
\* the effect of the direct call: each balance moves by the amount of the
\* mapped request and one COMPLETED row with the mapped ids, the amount and
\* the account's own currency is added
C24_FacadeEquivalence ==
    [][\A p \in AllProcs :
        /\ (pc[p] = "route" /\ WellFormed(req[p]) /\ pc'[p] # "route") =>
            /\ pc'[p] = "begin"
            /\ Arguments(req'[p]) = Mapped(req[p])
            /\ req'[p].currency = NoReq.currency
            /\ UNCHANGED <<balance, transactions, lockHolder, txOpen, txWrites,
                           txRecs, loc, result>>
        /\ (req[p].via = "api_generic" /\ Commits(p)) =>
            /\ Arguments(req[p]) = Mapped(req[p])
            /\ \A a \in Accounts : balance'[a] = balance[a] + Delta(req[p], a)
            /\ \E t \in transactions' \ transactions :
                /\ transactions' = transactions \cup {t}
                /\ t.sender_account_id = req[p].sender
                /\ t.receiver_account_id = req[p].receiver
                /\ t.amount = req[p].amount
                /\ t.transaction_type = req[p].op
                /\ t.status = COMPLETED
                /\ t.currency = currency(IF req[p].op = DEPOSIT
                                         THEN req[p].receiver ELSE req[p].sender)]_vars

\* a generic DEPOSIT that names a sender it does not need and a currency that
\* is not the receiver's is about to be routed, while another generic request
\* has been routed and is about to be committed
C24_Witness ==
    \E p, q \in AllProcs :
        /\ pc[p] = "route"
        /\ req[p].op = DEPOSIT
        /\ req[p].sender # NULL
        /\ req[p].receiver \in Accounts
        /\ req[p].currency # currency(req[p].receiver)
        /\ pc[q] = "commit"
        /\ req[q].via = "api_generic"

\* C27: update_balance(id, d) on an existing account with committed balance b
\* returns Ok only with b + d >= 0, and its commit sets the balance to b + d,
\* the value it returns, and changes nothing else; it returns "Insufficient
\* funds" only with b + d < 0 and then leaves every balance as it was; on an
\* id without a row it returns NotFound and changes nothing.  Every commit
\* adding exactly d, a sequence of successful calls adds the sum of their d.
C27_UpdateBalance ==
    [][\A p \in AllProcs :
        (req[p].op = UPDATE_BALANCE /\ Returns(p)) =>
            LET a == req[p].receiver
                d == req[p].amount
            IN  /\ transactions' = transactions
                /\ IF a \notin Accounts
                   THEN /\ result'[p] \in {ErrNotFound} \cup Interrupted
                        /\ balance' = balance
                   ELSE /\ result'[p] \in {Ok, ErrInsufficientFunds} \cup Interrupted
                        /\ result'[p] = Ok =>
                            /\ balance[a] + d >= 0
                            /\ loc[p].balance = balance[a] + d
                            /\ balance' = [balance EXCEPT ![a] = balance[a] + d]
                        /\ result'[p] # Ok => balance' = balance
                        /\ result'[p] = ErrInsufficientFunds => balance[a] + d < 0
                        /\ (balance[a] + d < 0 /\ result'[p] \notin Interrupted) =>
                            result'[p] = ErrInsufficientFunds]_vars

\* a1, seeded with SeedBalance, holds more after a committed adjustment (no
\* row was added), and another adjustment, which would take its account below
\* zero, has begun and is about to read the balance
C27_Witness ==
    /\ balance["a1"] = SeedBalance + MaxAmount
    /\ transactions = SeedRows
    /\ \E p \in AllProcs :
        /\ req[p].op = UPDATE_BALANCE
        /\ pc[p] = "lock_account"
        /\ req[p].receiver \in Accounts
        /\ balance[req[p].receiver] + req[p].amount < 0

\* the ids of the rows of table accounts
AccountIdsInUse == Accounts \cup {a.id : a \in accounts}

\* the user id has a row in table users
HasUserRow(id) == id \in {u.id : u \in users}

\* C25: create_account(owner, currency) on an owner without a users row
\* returns NotFound (or reports a store failure) and every step of such a call
\* leaves table accounts as it is; with an owner that has a row, a call that
\* returns Ok has added exactly one row, with a new id, that owner, that
\* currency and balance 0; no step of the call changes or removes an existing
\* account or a balance
C25_CreateAccount ==
    [][\A p \in AllProcs :
        (req[p].op = CREATE_ACCOUNT /\ InFlight(p) /\ pc'[p] # pc[p]) =>
            /\ balance' = balance
            /\ users' = users
            /\ accounts \subseteq accounts'
            /\ ~HasUserRow(req[p].caller) =>
                /\ accounts' = accounts
                /\ pc'[p] = "idle"
                /\ result'[p] \in {ErrNotFound} \cup Interrupted
            /\ result'[p] = ErrNotFound => ~HasUserRow(req[p].caller)
            /\ result'[p] = Ok =>
                \E t \in accounts' \ accounts :
                    /\ accounts' = accounts \cup {t}
                    /\ t.id \notin AccountIdsInUse
                    /\ t.user_id = req[p].caller
                    /\ t.currency = req[p].currency
                    /\ t.balance = 0]_vars

\* one call created an account for u2 next to an account created before, and
\* another call, for an owner that does not exist, returned NotFound
C25_Witness ==
    \E p, q \in AllProcs :
        /\ req[p].op = CREATE_ACCOUNT /\ req[p].caller = "u2" /\ result[p] = Ok
        /\ \E t \in accounts : t.user_id = "u2" /\ t.balance = 0
        /\ req[q].op = CREATE_ACCOUNT /\ req[q].caller = "u0"
        /\ result[q] = ErrNotFound

\* C26: a call of create_account with a currency that is not a code of three
\* letters stores no account: every row of table accounts that create_account
\* or create_user inserted has a currency of length 3
C26_MalformedCurrencyRejected ==
    \A a \in accounts : Len(a.currency) = 3

\* C28: every user with a row in table users owns at least one account, in
\* every reachable state
C28_EveryUserHasAccount ==
    \A u \in users : u.id \in Owners

IsRead(r) ==
    r.op \in {GET_ACCOUNT_BY_ID, GET_ACCOUNTS_BY_USER_ID, GET_TRANSACTION_BY_ID,
              GET_TRANSACTIONS_BY_ACCOUNT_ID}

\* the committed rows the reader's last call saw
SnapshotRows(p) == loc[p].snapshot[2]

\* p's step is the return of one of the four reads
ReadStep(p) ==
    /\ IsRead(req'[p])
    /\ \/ req'[p] # req[p]
       \/ result'[p] # result[p]
       \/ loc'[p].snapshot # loc[p].snapshot

\* C29: a call of get_account_by_id, get_accounts_by_user_id,
\* get_transaction_by_id or get_transactions_by_account_id changes no balance,
\* no row, no lock and no open store transaction; a call that repeats the
\* arguments of the call before it, with the same committed state, returns
\* the same result and the same rows (unless the store failed one of the two);
\* and a lookup by an id that has no committed row returns NotFound, while a
\* lookup by an id that has one returns that row
C29_ReadsArePure ==
    [][\A p \in Readers :
        /\ ReadStep(p) =>
            UNCHANGED <<balance, transactions, lockHolder, txOpen, txWrites,
                        txRecs, users, accounts>>
        /\ (/\ IsRead(req[p])
            /\ req'[p] = req[p]
            /\ loc'[p].snapshot = loc[p].snapshot
            /\ result[p] # ErrDatabase
            /\ result'[p] # ErrDatabase) =>
                /\ result'[p] = result[p]
                /\ loc'[p].data = loc[p].data
        /\ (ReadStep(p) /\ result'[p] # ErrDatabase) =>
            /\ req'[p].op = GET_ACCOUNT_BY_ID =>
                IF req'[p].account_id \in Accounts
                THEN /\ result'[p] = Ok
                     /\ \E a \in loc'[p].data :
                        /\ loc'[p].data = {a}
                        /\ a.id = req'[p].account_id
                        /\ a.balance = balance[a.id]
                ELSE result'[p] = ErrNotFound
            /\ req'[p].op = GET_TRANSACTION_BY_ID =>
                IF \E t \in transactions : t.id = req'[p].transaction_id
                THEN /\ result'[p] = Ok
                     /\ loc'[p].data =
                            {t \in transactions : t.id = req'[p].transaction_id}
                ELSE result'[p] = ErrNotFound]_vars

\* the reader was told NotFound for the id of a row that the writer has
\* inserted in a store transaction that is still open
C29_Witness ==
    \E p \in Readers, w \in Writers :
        /\ req[p].op = GET_TRANSACTION_BY_ID
        /\ result[p] = ErrNotFound
        /\ \E t \in txRecs[w] : t.id = req[p].transaction_id

\* C30: the rows a successful get_transactions_by_account_id(account, limit,
\* offset) returned are rows that were committed when it ran and name the
\* account as sender or receiver; they come newest first; and a committed row
\* naming the account is among them exactly when the number of newer such
\* rows is at least offset and less than offset + limit, so that at most limit
\* rows are returned; limit is 100 and offset 0 when not given
C30_AccountHistory ==
    \A p \in Readers :
        (req[p].op = GET_TRANSACTIONS_BY_ACCOUNT_ID /\ result[p] = Ok) =>
            LET data == loc[p].data
                limit == IF req[p].limit = None THEN 100 ELSE req[p].limit[1]
                offset == IF req[p].offset = None THEN 0 ELSE req[p].offset[1]
                named == {t \in SnapshotRows(p) :
                            \/ t.sender_account_id = req[p].account_id
                            \/ t.receiver_account_id = req[p].account_id}
                newer(t) == Cardinality({u \in named : created_at(u) > created_at(t)})
            IN  /\ \A i \in 1..Len(data) : data[i] \in named
                /\ \A i, j \in 1..Len(data) :
                    i < j => created_at(data[i]) > created_at(data[j])
                /\ \A t \in named :
                    (\E i \in 1..Len(data) : data[i] = t)
                        <=> (offset <= newer(t) /\ newer(t) < offset + limit)
                /\ Len(data) <= limit

\* the account's history has three committed rows, as sender and as receiver,
\* and the call with limit 1 and offset 1 returned the one in the middle
C30_Witness ==
    \E p \in Readers :
        /\ req[p].op = GET_TRANSACTIONS_BY_ACCOUNT_ID
        /\ req[p].account_id = "a1"
        /\ req[p].limit = <<1>>
        /\ req[p].offset = <<1>>
        /\ result[p] = Ok
        /\ Len(loc[p].data) = 1
        /\ Cardinality(SnapshotRows(p)) = 3
        /\ \E t \in SnapshotRows(p) : t.sender_account_id = "a1"
        /\ \A t \in SnapshotRows(p) :
            t.sender_account_id = "a1" \/ t.receiver_account_id = "a1"

\* u is the row t, but for its status
SameRecord(t, u) ==
    /\ u.id = t.id
    /\ u.sender_account_id = t.sender_account_id
    /\ u.receiver_account_id = t.receiver_account_id
    /\ u.amount = t.amount
    /\ u.currency = t.currency
    /\ u.transaction_type = t.transaction_type

\* C31: a committed transaction row stays in the table for ever, with its id,
\* sender, receiver, amount, currency and type as they were inserted; a row
\* inserted in a store transaction that is still open keeps these fields
\* until it is committed with them or vanishes in the rollback of the call
\* that inserted it.  Only the status of a row changes.
C31_AppendOnly ==
    [][/\ \A t \in transactions : \E u \in transactions' : SameRecord(t, u)
       /\ \A p \in AllProcs : \A t \in txRecs[p] :
            \/ \E u \in txRecs'[p] \cup transactions' : SameRecord(t, u)
            \/ Returns(p) /\ result'[p] # Ok /\ transactions' = transactions]_vars

\* an earlier call's row is committed and COMPLETED, and the row of a call in
\* progress has just been set from PENDING to COMPLETED
C31_Witness ==
    /\ \E t \in transactions : t.id > 0 /\ t.status = COMPLETED
    /\ \E p \in AllProcs : \E t \in txRecs[p] :
        pc[p] = "commit" /\ t.status = COMPLETED

\* C32: the currency of every transaction row, committed or not yet, is the
\* currency of the account row(s) it names: of the receiver of a deposit, of
\* the sender of a withdrawal, of both the sender and the receiver of a
\* transfer; the currency string of a generic request is in no row
C32_RecordCurrency ==
    \A t \in AllRows :
        /\ t.sender_account_id # NULL => t.currency = currency(t.sender_account_id)
        /\ t.receiver_account_id # NULL => t.currency = currency(t.receiver_account_id)

\* a committed transfer between two accounts, and a committed row in EUR,
\* which no request can name as its currency
C32_Witness ==
    /\ "EUR" \notin Currencies
    /\ \E t \in transactions : t.id > 0 /\ t.transaction_type = TRANSFER
    /\ \E t \in transactions : t.id > 0 /\ t.currency = "EUR"

\* C34: a transfer that returns, the store not having failed it and the call
\* not having been dropped, returns the error of the first test it fails, in
\* this order: equal ids (SameAccount, whether or not the account exists), no
\* sender row (NotFound, at the lookup of the sender), no receiver row
\* (NotFound, at the lookup of the receiver), different currencies
\* (CurrencyMismatch), sender balance < amount (InsufficientFunds)
C34_TransferErrorOrder ==
    [][\A p \in AllProcs :
        (/\ req[p].op = TRANSFER
         /\ Returns(p)
         /\ result'[p] \notin Interrupted \cup {ErrDeadlock}) =>
            LET r == req[p] IN
            IF r.sender = r.receiver
            THEN result'[p] = ErrSameAccount /\ pc[p] = "begin"
            ELSE IF r.sender \notin Accounts
            THEN result'[p] = ErrNotFound /\ pc[p] = "lock_sender"
            ELSE IF r.receiver \notin Accounts
            THEN result'[p] = ErrNotFound /\ pc[p] = "lock_receiver"
            ELSE IF currency(r.sender) # currency(r.receiver)
            THEN result'[p] = ErrCurrencyMismatch
            ELSE IF balance[r.sender] < r.amount
            THEN result'[p] = ErrInsufficientFunds
            ELSE result'[p] \notin {ErrSameAccount, ErrNotFound, ErrCurrencyMismatch,
                                    ErrInsufficientFunds}]_vars

\* a transfer of more than its sender holds, to an account in another
\* currency, has locked the sender and is about to look up the receiver, after
\* another transfer was refused as a self-transfer
C34_Witness ==
    \E p, q \in AllProcs :
        /\ req[p].op = TRANSFER
        /\ pc[p] = "lock_receiver"
        /\ req[p].receiver \in Accounts
        /\ currency(req[p].sender) # currency(req[p].receiver)
        /\ balance[req[p].sender] < req[p].amount
        /\ pc[q] = "idle"
        /\ result[q] = ErrSameAccount

\* the accounts a request names, and those its store transaction has written
Parties(r) == {r.sender, r.receiver} \ {NULL}
WrittenAccounts(p) == {w[1] : w \in txWrites[p]}

\* C35: in every state of a deposit, withdrawal or transfer: a row or a
\* balance write exists only inside the call's open store transaction and with
\* the row locks of all its accounts held; a row exists only after the
\* validation (the sender held at least the amount); a balance is written
\* only when the row exists; a transfer has written its receiver only when it
\* has written its sender; the row is COMPLETED only when every account of the
\* call has been written; and a row is committed only as COMPLETED
C35_ProtocolOrder ==
    /\ \A t \in transactions : t.status = COMPLETED
    /\ \A p \in AllProcs :
        req[p].op \in {DEPOSIT, WITHDRAWAL, TRANSFER} =>
            /\ (txRecs[p] # {} \/ txWrites[p] # {}) =>
                /\ txOpen[p]
                /\ \A a \in Parties(req[p]) : a \in Accounts /\ lockHolder[a] = p
            /\ (txRecs[p] # {} /\ req[p].op # DEPOSIT) =>
                loc[p].balance >= req[p].amount
            /\ txWrites[p] # {} => txRecs[p] # {}
            /\ WrittenAccounts(p) \subseteq Parties(req[p])
            /\ (req[p].op = TRANSFER /\ req[p].receiver \in WrittenAccounts(p)) =>
                req[p].sender \in WrittenAccounts(p)
            /\ \A t \in txRecs[p] :
                /\ t.status \in {PENDING, COMPLETED}
                /\ t.status = COMPLETED => WrittenAccounts(p) = Parties(req[p])

\* a transfer has debited its sender and not yet credited its receiver, its
\* row still PENDING
C35_Witness ==
    \E p \in AllProcs :
        /\ req[p].op = TRANSFER
        /\ pc[p] = "credit"
        /\ WrittenAccounts(p) = {req[p].sender}
        /\ \E t \in txRecs[p] : t.status = PENDING

\* C36: under fair scheduling every call of process_deposit,
\* process_withdrawal, process_transfer or update_balance that has started
\* returns, committed or with an error
C36_EveryCallReturns ==
    \A p \in Procs : InFlight(p) ~> ~InFlight(p)

\* two transfers wait for each other's row lock
C36_Witness ==
    \E p, q \in Procs :
        /\ p # q
        /\ req[p].op = TRANSFER /\ req[q].op = TRANSFER
        /\ req[p].sender = req[q].receiver
        /\ req[p].receiver = req[q].sender
        /\ WaitsFor(p, q) /\ WaitsFor(q, p)

\* the accounts a call may write: the target of a deposit, a withdrawal or an
\* update_balance, the sender and the receiver of a transfer
Frame(r) == IF r.op = TRANSFER THEN {r.sender, r.receiver} ELSE {Target(r)}

\* C37: in every step, a committed balance changes only by the commit of a
\* call that has the account in its frame (the target of a deposit, a
\* withdrawal or an update_balance; the sender or the receiver of a transfer),
\* a call's uncommitted writes are on accounts of its frame only, and no
\* account row appears, disappears or changes its id, owner or currency
C37_Frame ==
    [][/\ \A a \in Accounts :
            balance'[a] # balance[a] =>
                \E p \in AllProcs : Commits(p) /\ a \in Frame(req[p])
       /\ \A p \in AllProcs : \A w \in txWrites'[p] :
            \/ w \in txWrites[p]
            \/ w[1] \in Frame(req[p])
       /\ DOMAIN balance' = DOMAIN balance
       /\ accounts' = accounts]_vars

\* a transfer has committed, and every account but its two has the balance
\* it started with
C37_Witness ==
    \E t \in transactions :
        /\ t.id > 0
        /\ t.transaction_type = TRANSFER
        /\ t.amount > 0
        /\ balance[t.receiver_account_id] > 0
        /\ \A a \in Accounts \ {t.sender_account_id, t.receiver_account_id} :
            balance[a] = (IF a = "a1" THEN SeedBalance ELSE 0)

\* the result of request r run alone on the balances b
Sequential(r, b) ==
    IF r.op = TRANSFER THEN
        IF r.sender = r.receiver THEN ErrSameAccount
        ELSE IF r.sender \notin Accounts \/ r.receiver \notin Accounts THEN ErrNotFound
        ELSE IF currency(r.sender) # currency(r.receiver) THEN ErrCurrencyMismatch
        ELSE IF b[r.sender] < r.amount THEN ErrInsufficientFunds
        ELSE IF b[r.sender] - r.amount < 0 \/ b[r.receiver] + r.amount < 0 THEN ErrCheck
        ELSE Ok
    ELSE IF Target(r) \notin Accounts THEN ErrNotFound
    ELSE IF r.op = WITHDRAWAL THEN
        IF b[r.sender] < r.amount THEN ErrInsufficientFunds
        ELSE IF b[r.sender] - r.amount < 0 THEN ErrCheck
        ELSE Ok
    ELSE IF r.op = DEPOSIT THEN
        IF b[r.receiver] + r.amount < 0 THEN ErrCheck ELSE Ok
    ELSE IF b[r.receiver] + r.amount < 0 THEN ErrInsufficientFunds
    ELSE Ok

\* the balances of the accounts of r's frame, every other account blanked
OnFrame(r) == [a \in Accounts |-> IF a \in Frame(r) THEN balance[a] ELSE 0]

\* the calls of p and q share no account
Disjoint(p, q) == p # q /\ Frame(req[p]) \cap Frame(req[q]) = {}

\* what a call has of its own
Local(p) == <<pc[p], req[p], loc[p], txWrites[p], txRecs[p], result[p], txOpen[p]>>

\* C38: two calls in flight that share no account do not see each other. A
\* call whose accounts no other call in flight shares can always take its
\* next step (it never waits). A call that returns without having been
\* interrupted returns what it would return alone on the committed balances
\* of its own accounts, and a commit adds its own amounts and its own row only.
\* A step of one call changes neither the other's local state nor the
\* balances or the row locks of the other's accounts, and a call is never
\* ended as a deadlock victim while it shares no account with another.
C38_DisjointCommute ==
    [][\A p \in Procs :
        LET r == req[p]
            alone == \A q \in Procs \ {p} : InFlight(q) => Disjoint(p, q)
        IN
        /\ (InFlight(p) /\ alone) => ENABLED Progress(p)
        /\ (Returns(p) /\ result'[p] \notin Interrupted) =>
            /\ result'[p] # ErrDeadlock => result'[p] = Sequential(r, OnFrame(r))
            /\ result'[p] = ErrDeadlock => ~alone
        /\ Commits(p) =>
            /\ balance' = [a \in Accounts |-> balance[a] + Delta(r, a)]
            /\ transactions' \ transactions =
                IF r.op = UPDATE_BALANCE THEN {}
                ELSE {[id |-> loc[p].id,
                       sender_account_id |-> r.sender,
                       receiver_account_id |-> r.receiver,
                       amount |-> r.amount,
                       currency |-> currency(Target(r)),
                       transaction_type |-> r.op,
                       status |-> COMPLETED]}
            /\ transactions \subseteq transactions'
        /\ \A q \in Procs :
            (InFlight(p) /\ InFlight(q) /\ Disjoint(p, q) /\ Local(p)' # Local(p)) =>
                /\ Local(q)' = Local(q)
                /\ \A a \in Frame(req[q]) \cap Accounts :
                    balance'[a] = balance[a] /\ lockHolder'[a] = lockHolder[a]]_vars

\* two calls that share no account are both about to commit, each holding the
\* row locks of its own accounts and its own uncommitted writes
C38_Witness ==
    \E p, q \in Procs :
        /\ Disjoint(p, q)
        /\ pc[p] = "commit" /\ pc[q] = "commit"
        /\ req[p].op = TRANSFER
        /\ txWrites[p] # {} /\ txWrites[q] # {}

\* the stages of a handler before it calls the service
InHandler(p) == pc[p] \in {"api_owner", "api_sender", "api_receiver"}

\* the handler of p is about to look at a sender that exists and whose owner
\* is not the authenticated user
ChecksForeignSender(p) ==
    /\ req[p].sender \in Accounts
    /\ user_id(req[p].sender) # req[p].caller
    /\ \/ pc[p] = "api_sender"
       \/ pc[p] = "api_owner" /\ req[p].op \in {WITHDRAWAL, TRANSFER}

\* C39: for requests made through the withdrawal, transfer and
\* create_transaction handlers: a committed balance goes down only in the
\* commit of a call whose authenticated user owns that account; a call that
\* has gone past its handler to the engine with a sender has a sender that
\* exists and that its authenticated user owns; and a handler that finds the
\* sender owned by someone else returns Forbidden in that step, which changes
\* no balance, row, lock or store transaction
C39_NoForeignDebit ==
    [][/\ \A a \in Accounts :
            balance'[a] < balance[a] =>
                \E p \in Procs : Commits(p) /\ user_id(a) = req[p].caller
       /\ \A p \in Procs :
            /\ (InFlight(p) /\ ~InHandler(p) /\ pc[p] # "route"
                    /\ req[p].op \in {WITHDRAWAL, TRANSFER}) =>
                    /\ req[p].sender \in Accounts
                    /\ user_id(req[p].sender) = req[p].caller
            /\ (ChecksForeignSender(p) /\ Local(p)' # Local(p)) =>
                    /\ pc'[p] = "idle"
                    /\ result'[p] = ErrForbidden
                    /\ UNCHANGED <<balance, transactions, lockHolder, txOpen,
                                   txWrites, txRecs>>]_vars

\* one caller's transfer out of its own account to another user's account is
\* about to commit while a withdrawal from an account of another user is with
\* its handler
C39_Witness ==
    \E p, q \in Procs :
        /\ pc[p] = "commit"
        /\ req[p].op = TRANSFER
        /\ user_id(req[p].sender) = req[p].caller
        /\ user_id(req[p].receiver) # req[p].caller
        /\ ChecksForeignSender(q)
        /\ req[q].op = WITHDRAWAL

\* the dedicated transfer handler answers request r with Forbidden
TransferHandlerForbids(r) ==
    /\ OwnedAccount(r) \in Accounts
    /\ user_id(OwnedAccount(r)) # r.caller

\* C40: a step of the create_transaction handler on a TRANSFER request that
\* names both accounts ends the request with Forbidden if and only if the
\* transfer handler answers the same caller, sender and receiver with Forbidden
C40_SameAuthorization ==
    [][\A p \in Procs :
        (/\ req[p].via = "api_generic"
         /\ req[p].op = TRANSFER
         /\ req[p].sender # NULL /\ req[p].receiver # NULL
         /\ InHandler(p)
         /\ Local(p)' # Local(p)) =>
            ((pc'[p] = "idle" /\ result'[p] = ErrForbidden)
                <=> TransferHandlerForbids(req[p]))]_vars

====
